---- MODULE Spec2Model ----
(***************************************************************************)
(* Model of the spec-file simplification script (pure-simplify).           *)
(*                                                                         *)
(* The per-record loop of main (the variant with the persisted,            *)
(* incrementally written report) is a state machine whose suspension       *)
(* points are the awaits of the code: the review call, the backoff         *)
(* delay and the report write.  The file system and the review service     *)
(* are the environment: every read, write and review call draws its        *)
(* outcome from a small set.                                               *)
(***************************************************************************)
EXTENDS Integers, Sequences, FiniteSets, TLC

(***************************************************************************)
(* Bounds of the model and constants of the program.                       *)
(***************************************************************************)
MaxRecords == 2

maxRetries == 3

BaseDelay == 1000

(***************************************************************************)
(* Texts.  A text is a sequence of characters; NL is the line terminator.  *)
(***************************************************************************)
NL == "\n"

endsWith(s, c) == Len(s) > 0 /\ s[Len(s)] = c

OriginalContent == <<"o", NL>>

ReturnedContents == { <<"X">>, <<"X", NL>>, <<"X", NL, NL>> }

(***************************************************************************)
(* JavaScript values met by the loop: what JSON.parse returns and what a   *)
(* property read on it returns.                                            *)
(***************************************************************************)
Undefined == [type |-> "undefined"]

JNull == [type |-> "null"]

JString(s) == [type |-> "string", chars |-> s]

JObject(c) == [type |-> "object", newSpecContent |-> c]

\* if (value): undefined, null and "" are falsy
JSTruthy(v) ==
  CASE v.type = "undefined" -> FALSE
    [] v.type = "null" -> FALSE
    [] v.type = "string" -> Len(v.chars) > 0
    [] OTHER -> TRUE

(***************************************************************************)
(* What the review service can do with one request, and what               *)
(* sendToClaudeForReview makes of it: the text of the first content        *)
(* block, or null when the request throws or the reply has no content.     *)
(***************************************************************************)
NoResponse == [form |-> "none"]

Prose == [form |-> "prose"]

JsonText(v) == [form |-> "json", value |-> v]

JsonValues ==
  { JNull, JObject(Undefined), JObject(JString(<<>>)) }
    \cup { JObject(JString(c)) : c \in ReturnedContents }

ResponseTexts == { Prose } \cup { JsonText(v) : v \in JsonValues }

ServiceReplies ==
  { [kind |-> "throws"], [kind |-> "noContent"] }
    \cup { [kind |-> "content", text |-> t] : t \in ResponseTexts }

sendToClaudeForReview(reply) ==
  IF reply.kind = "content" THEN reply.text ELSE NoResponse

\* if (claudeResponse): null is falsy, the texts of the model are not empty
HasResponse(text) == text.form # "none"

\* JSON.parse: throws on a text that is not JSON
JSONParse(text) ==
  IF text.form = "json"
    THEN [threw |-> FALSE, value |-> text.value]
    ELSE [threw |-> TRUE, value |-> Undefined]

(***************************************************************************)
(* The file system.  A name is the tuple of its dot-separated parts        *)
(* ("1.spec.js" is <<1, "spec", "js">>, the directory "sub" is <<"sub">>), *)
(* a path is the sequence of the names that lead to an entry, and a file   *)
(* system gives every directory its listing: what readdirSync returns,     *)
(* with what statSync says of each item.                                   *)
(***************************************************************************)
NoPath == <<>>

upDir == << <<"up">> >>

\* the directory the user entered
startDir == << <<"up">>, <<"root">> >>

\* path.dirname
dirname(p) == SubSeq(p, 1, Len(p) - 1)

\* path.join(dir, item)
join(dir, item) == Append(dir, item)

FileEntry(name) == [name |-> name, isDirectory |-> FALSE]

DirEntry(name) == [name |-> name, isDirectory |-> TRUE]

\* fs.existsSync: a directory that has a listing, or an entry of its parent's listing
existsSync(fs, p) ==
  \/ p \in DOMAIN fs
  \/ /\ p # <<>>
     /\ dirname(p) \in DOMAIN fs
     /\ \E k \in 1..Len(fs[dirname(p)]) : fs[dirname(p)][k].name = p[Len(p)]

SpecExtensions == { "js", "ts", "vue" }

\* a name taken for a spec file as soon as it carries the marker
IsSpecNameAnyMarker(item) == \E j \in 2..Len(item) : item[j] = "spec"

\* item.endsWith('.spec.js') || item.endsWith('.spec.ts') || item.endsWith('.spec.vue')
IsSpecName(item) ==
  /\ Len(item) >= 3
  /\ item[Len(item) - 1] = "spec"
  /\ item[Len(item)] \in SpecExtensions

\* item.replace('.spec.', '.'): the first part "spec" that stands between two dots goes
replaceSpecMarker(item) ==
  LET marks == { j \in 2..(Len(item) - 1) : item[j] = "spec" } IN
  IF marks = {} THEN item
  ELSE LET first == CHOOSE j \in marks : \A m \in marks : j <= m
       IN SubSeq(item, 1, first - 1) \o SubSeq(item, first + 1, Len(item))

\* the parent directory looked at before the directory of the spec file
ResolveRelatedParentFirst(fs, dir, relatedFileName) ==
  IF existsSync(fs, join(dirname(dir), relatedFileName))
    THEN join(dirname(dir), relatedFileName)
    ELSE IF existsSync(fs, join(dir, relatedFileName))
      THEN join(dir, relatedFileName)
      ELSE NoPath

\* the subject file of a spec file: its own directory first, then the parent directory
ResolveRelated(fs, dir, relatedFileName) ==
  IF existsSync(fs, join(dir, relatedFileName))
    THEN join(dir, relatedFileName)
    ELSE IF existsSync(fs, join(dirname(dir), relatedFileName))
      THEN join(dirname(dir), relatedFileName)
      ELSE NoPath

\* a record that names its subject candidate whether or not it was found
MakeRecordAlwaysNamed(fs, dir, item) ==
  [ specFileName |-> item,
    specFilePath |-> join(dir, item),
    relatedFileName |-> replaceSpecMarker(item),
    relatedFilePath |-> ResolveRelated(fs, dir, replaceSpecMarker(item)) ]

\* the record pushed for spec file `item` of directory `dir`
MakeRecord(fs, dir, item) ==
  LET relatedFileName == replaceSpecMarker(item)
      relatedFilePath == ResolveRelated(fs, dir, relatedFileName)
  IN [ specFileName |-> item,
       specFilePath |-> join(dir, item),
       relatedFileName |-> IF relatedFilePath # NoPath THEN relatedFileName ELSE NoPath,
       relatedFilePath |-> relatedFilePath ]

\* items.forEach from item k on: directories are walked, spec files are recorded
RECURSIVE walkItems(_, _, _, _)
walkItems(fs, dir, k, filesList) ==
  IF k > Len(fs[dir]) THEN filesList
  ELSE LET item == fs[dir][k] IN
       IF item.isDirectory
         THEN walkItems(fs, dir, k + 1, walkItems(fs, join(dir, item.name), 1, filesList))
         ELSE IF IsSpecName(item.name)
           THEN walkItems(fs, dir, k + 1, Append(filesList, MakeRecord(fs, dir, item.name)))
           ELSE walkItems(fs, dir, k + 1, filesList)

findSpecFilesAndRelated(fs, dir, filesList) == walkItems(fs, dir, 1, filesList)

(***************************************************************************)
(* The directories a run of main is checked on: the k-th spec file is      *)
(* <k>.spec.js in the start directory; its subject candidate is <k>.js,    *)
(* which exists for odd k.                                                 *)
(***************************************************************************)
SpecName(k) == <<k, "spec", "js">>

SpecPath(k) == join(startDir, SpecName(k))

RelatedName(k) == <<k, "js">>

RelatedPath(k) == join(startDir, RelatedName(k))

RECURSIVE RunListing(_)
RunListing(n) ==
  IF n = 0 THEN <<>>
  ELSE RunListing(n - 1)
         \o (IF n % 2 = 1 THEN << FileEntry(RelatedName(n)) >> ELSE <<>>)
         \o << FileEntry(SpecName(n)) >>

RunTree(n) ==
  (upDir :> << DirEntry(<<"root">>) >>) @@ (startDir :> RunListing(n))

RunTrees == { RunTree(n) : n \in 0..MaxRecords }

(***************************************************************************)
(* The directories the search is checked on.  The start directory may hold *)
(* 1.spec.js, its subject candidate 1.js as a file or as a directory, a    *)
(* directory sub with 2.spec.ts and its subject candidate 2.ts, files that *)
(* are no spec files and a directory named 4.spec.vue with 5.spec.vue in   *)
(* it; the directory above may hold 1.js, the start directory 2.ts.        *)
(***************************************************************************)
subDir == join(startDir, <<"sub">>)

candidateDir == join(startDir, <<1, "js">>)

specNamedDir == join(startDir, <<4, "spec", "vue">>)

Shapes ==
  [ subject : { "absent", "file", "directory" },
    spec : BOOLEAN,
    above : BOOLEAN,
    sub : { "absent", "unpaired", "own", "parent", "both" },
    others : BOOLEAN ]

Dirs(shape) ==
  { upDir, startDir }
    \cup (IF shape.subject = "directory" THEN { candidateDir } ELSE {})
    \cup (IF shape.sub # "absent" THEN { subDir } ELSE {})
    \cup (IF shape.others THEN { specNamedDir } ELSE {})

\* what readdirSync and statSync give for directory d
Listing(shape, d) ==
  IF d = upDir THEN
    << DirEntry(<<"root">>) >>
      \o (IF shape.above THEN << FileEntry(<<1, "js">>) >> ELSE <<>>)
  ELSE IF d = startDir THEN
    (IF shape.subject = "file" THEN << FileEntry(<<1, "js">>) >>
       ELSE IF shape.subject = "directory" THEN << DirEntry(<<1, "js">>) >>
       ELSE <<>>)
      \o (IF shape.spec THEN << FileEntry(<<1, "spec", "js">>) >> ELSE <<>>)
      \o (IF shape.sub \in { "parent", "both" } THEN << FileEntry(<<2, "ts">>) >> ELSE <<>>)
      \o (IF shape.others
            THEN << FileEntry(<<3, "md">>), FileEntry(<<3, "spec", "md">>),
                    FileEntry(<<3, "spec", "js", "bak">>), DirEntry(<<4, "spec", "vue">>) >>
            ELSE <<>>)
      \o (IF shape.sub # "absent" THEN << DirEntry(<<"sub">>) >> ELSE <<>>)
  ELSE IF d = subDir THEN
    (IF shape.sub \in { "own", "both" } THEN << FileEntry(<<2, "ts">>) >> ELSE <<>>)
      \o << FileEntry(<<2, "spec", "ts">>) >>
  ELSE IF d = specNamedDir THEN
    << FileEntry(<<5, "spec", "vue">>) >>
  ELSE <<>>

TreeOf(shape) == [ d \in Dirs(shape) |-> Listing(shape, d) ]

\* the directory the user entered does not exist
MissingTree == [ d \in { upDir } |-> <<>> ]

Trees == { TreeOf(shape) : shape \in Shapes } \cup { MissingTree }

(***************************************************************************)
(* State of a run of main.                                                 *)
(***************************************************************************)
VARIABLES
  tree,            \* the file system as it is when the directory is searched
  env,             \* what the file system and the review service can do in this run
  result,          \* the records findSpecFilesAndRelated returned
  i,               \* the loop index of the per-record loop (from 0)
  pc,              \* where main is: read, send, delay, afterLoop, advance, done
  retries,         \* retries of the current record
  claudeResponse,  \* the response kept for the current record, or NoResponse
  processedFiles,  \* [success, error, skipped]: the in-memory run report
  fileContent,     \* content of every spec file and every subject file on disk
  reportFile,      \* content of the report file on disk, or NoFile
  lastWrite,       \* the latest report write: what was written and whether it succeeded
  readOutcome,     \* how the reads of the current record ended
  attempts,        \* what sendToClaudeForReview returned, per call, for the current record
  delays,          \* the delays waited for the current record, in ms
  specWrites       \* how each writeFileSync of the current record's spec file ended

vars ==
  << tree, env, result, i, pc, retries, claudeResponse, processedFiles, fileContent,
     reportFile, lastWrite, readOutcome, attempts, delays, specWrites >>

NoFile == [absent |-> TRUE]

\* path.join(startDir, reportFileName): the name is made once, before the loop
reportPath == join(startDir, <<"simplify_report", "json">>)

NoWrite == [path |-> NoPath, snapshot |-> NoFile, ok |-> FALSE]

WriteOutcomes == { "ok", "fails" }

\* a write can also fail after the file was opened, which leaves it truncated
PartwayWriteOutcomes == WriteOutcomes \cup { "failsPartway" }

ReadOutcomes(rec) ==
  { "ok", "specUnreadable" }
    \cup (IF rec.relatedFilePath # NoPath THEN { "relatedUnreadable" } ELSE {})

\* the message of the error readFileSync throws
ReadErrorMessage(rd, rec) ==
  IF rd = "specUnreadable"
    THEN <<"ENOENT">> \o rec.specFilePath
    ELSE <<"ENOENT">> \o rec.relatedFilePath

\* the files the records name: the spec files and the subject files found
FilesOf(records) ==
  { records[k].specFilePath : k \in 1..Len(records) }
    \cup { records[k].relatedFilePath :
             k \in { j \in 1..Len(records) : records[j].relatedFilePath # NoPath } }

\* the environment of a run: a failed write leaves the file as it was
FullEnvironment ==
  [ reads |-> { "ok", "specUnreadable", "relatedUnreadable" },
    replies |-> ServiceReplies,
    specWrites |-> WriteOutcomes,
    reportWrites |-> WriteOutcomes ]

\* a disk on which a write of a spec file can also fail part-way; report writes succeed
DiskFaultEnvironment ==
  [ FullEnvironment EXCEPT !.specWrites = PartwayWriteOutcomes, !.reportWrites = { "ok" } ]

\* a run whose files are readable and writable; the review service fails or returns content
LongRunEnvironment ==
  [ reads |-> { "ok" },
    replies |-> { [kind |-> "throws"],
                  [kind |-> "content", text |-> JsonText(JObject(JString(<<"X", NL>>)))] },
    specWrites |-> { "ok" },
    reportWrites |-> { "ok" } ]

ExhaustedMessage == <<"Failed to receive response after", maxRetries, "attempts">>

specFile == result[i + 1]

(***************************************************************************)
(* The part of the state the steps of one record work on, as a value.      *)
(***************************************************************************)
Cur ==
  [ retries |-> retries,
    claudeResponse |-> claudeResponse,
    processedFiles |-> processedFiles,
    fileContent |-> fileContent,
    reportFile |-> reportFile,
    lastWrite |-> lastWrite,
    attempts |-> attempts,
    specWrites |-> specWrites,
    escaped |-> FALSE ]

Commit(st) ==
  /\ retries' = st.retries
  /\ claudeResponse' = st.claudeResponse
  /\ processedFiles' = st.processedFiles
  /\ fileContent' = st.fileContent
  /\ reportFile' = st.reportFile
  /\ lastWrite' = st.lastWrite
  /\ attempts' = st.attempts
  /\ specWrites' = st.specWrites

(***************************************************************************)
(* updateReport: build the snapshot from the three lists and overwrite     *)
(* the report file with it; a failed write is logged and swallowed.        *)
(***************************************************************************)
\* a total that leaves the skipped records out
ReportWithoutSkipped(pf) ==
  [ totalProcessed |-> Len(pf.success) + Len(pf.error),
    successfullyProcessed |-> Len(pf.success),
    errors |-> Len(pf.error),
    skipped |-> Len(pf.skipped),
    successfulFiles |-> pf.success,
    errorFiles |-> pf.error,
    skippedFiles |-> pf.skipped ]

Report(pf) ==
  [ totalProcessed |-> Len(pf.success) + Len(pf.error) + Len(pf.skipped),
    successfullyProcessed |-> Len(pf.success),
    errors |-> Len(pf.error),
    skipped |-> Len(pf.skipped),
    successfulFiles |-> pf.success,
    errorFiles |-> pf.error,
    skippedFiles |-> pf.skipped ]

\* a write that adds its total to the total already in the file
updateReportAccumulates(st, outcome) ==
  [ st EXCEPT
      !.reportFile =
          IF outcome # "ok" THEN @
          ELSE IF @ = NoFile THEN Report(st.processedFiles)
          ELSE [ Report(st.processedFiles) EXCEPT !.totalProcessed = @ + st.reportFile.totalProcessed ],
      !.lastWrite = [path |-> reportPath, snapshot |-> Report(st.processedFiles),
                     ok |-> outcome = "ok"] ]

\* a failed write of the report thrown on to the caller
updateReportRethrows(st, outcome) ==
  [ st EXCEPT
      !.reportFile = IF outcome = "ok" THEN Report(st.processedFiles) ELSE @,
      !.lastWrite = [path |-> reportPath, snapshot |-> Report(st.processedFiles),
                     ok |-> outcome = "ok"],
      !.escaped = outcome # "ok" ]

updateReport(st, outcome) ==
  [ st EXCEPT
      !.reportFile = IF outcome = "ok" THEN Report(st.processedFiles) ELSE @,
      !.lastWrite = [path |-> reportPath, snapshot |-> Report(st.processedFiles),
                     ok |-> outcome = "ok"] ]

PushSuccess(st, path) ==
  [ st EXCEPT !.processedFiles.success = Append(@, path) ]

PushSkipped(st, path) ==
  [ st EXCEPT !.processedFiles.skipped = Append(@, path) ]

PushError(st, file, message) ==
  [ st EXCEPT !.processedFiles.error = Append(@, [file |-> file, error |-> message]) ]

(***************************************************************************)
(* One pass of the body of the retry loop, after the review call           *)
(* returned `text`: parse it, write the spec file or skip, and let the     *)
(* catch around the parse reset the response to null.                      *)
(***************************************************************************)
\* a line terminator added whatever the content ends with
NewContentAlwaysAppends(c) == Append(c, NL)

\* the returned content written as it is
NewContentUnterminated(c) == c

\* the content written: a line terminator is added when the content has none at its end
NewContent(c) == IF endsWith(c, NL) THEN c ELSE Append(c, NL)

\* catch (parseError): the response is reset to null to trigger a retry
ParseCatch(st) == [ st EXCEPT !.claudeResponse = NoResponse ]

\* fs.writeFileSync(specFile.specFilePath, newContent): throws when the write fails
WriteSpec(st, rec, content, w) ==
  [ st EXCEPT
      !.specWrites = Append(@, w),
      !.fileContent[rec.specFilePath] =
          IF w = "ok" THEN content ELSE IF w = "failsPartway" THEN <<>> ELSE @ ]

\* if (parsedResponse.newSpecContent) { write; push; report }
AcceptContent(st, rec, c, w, rep) ==
  LET written == WriteSpec(st, rec, NewContent(c.chars), w) IN
  IF w = "ok"
    THEN updateReport(PushSuccess(written, rec.specFilePath), rep)
    ELSE ParseCatch(written)                 \* the throw lands in the catch around the parse

\* an absent content field handled as a malformed response: reset and retry
SkipRecordRetried(st, rec, rep) == [ st EXCEPT !.claudeResponse = NoResponse ]

\* a skip that leaves the report file as it was
SkipRecordUnreported(st, rec, rep) == PushSkipped(st, rec.specFilePath)

\* else { push to skipped; report }
SkipRecord(st, rec, rep) == updateReport(PushSkipped(st, rec.specFilePath), rep)

\* if (claudeResponse) { try { parse ... } catch (parseError) { ... } }
HandleResponse(st, rec, w, rep) ==
  IF ~HasResponse(st.claudeResponse)
    THEN st
    ELSE LET parsed == JSONParse(st.claudeResponse) IN
         IF parsed.threw
           THEN ParseCatch(st)
           ELSE IF parsed.value.type # "object"
             THEN ParseCatch(st)             \* property read of null throws
             ELSE IF JSTruthy(parsed.value.newSpecContent)
               THEN AcceptContent(st, rec, parsed.value.newSpecContent, w, rep)
               ELSE SkipRecord(st, rec, rep)

\* a bound that lets one attempt too many through
RetryAllowedOffByOne(n) == n <= maxRetries

\* retries < maxRetries
RetryAllowed(n) == n < maxRetries

\* while (retries < maxRetries && !claudeResponse)
LoopCondition(n, response) == RetryAllowed(n) /\ ~HasResponse(response)

\* the error entry of a record whose retries are spent
PushExhausted(st, rec, rep) ==
  updateReport(PushError(st, rec.specFileName, ExhaustedMessage), rep)

\* a failure count that also records an error entry on every failed attempt
CountFailureEager(st, rec, rep) ==
  IF HasResponse(st.claudeResponse)
    THEN st
    ELSE PushExhausted([ st EXCEPT !.retries = @ + 1 ], rec, rep)

\* if (!claudeResponse) { retries++; if (retries < maxRetries) wait else record the failure }
CountFailure(st, rec, rep) ==
  IF HasResponse(st.claudeResponse)
    THEN st
    ELSE LET counted == [ st EXCEPT !.retries = @ + 1 ] IN
         IF RetryAllowed(counted.retries)
           THEN counted
           ELSE PushExhausted(counted, rec, rep)

\* the check after the loop: if (!claudeResponse) { record the failure }
AfterLoopCheck(st, rec, rep) ==
  IF HasResponse(st.claudeResponse) THEN st ELSE PushExhausted(st, rec, rep)

\* a catch that lets the error go on to the caller of main
OuterCatchRethrows(st, rec, message, rep) == [ st EXCEPT !.escaped = TRUE ]

\* the catch around the whole record: record the error's message
OuterCatch(st, rec, message, rep) ==
  updateReport(PushError(st, rec.specFileName, message), rep)

\* a read whose failure is not noticed: the record is submitted all the same
AfterReadSubmitsAlways(rd) == "send"

\* a failed read leaves the try block for the catch, which ends the record
AfterRead(rd) == IF rd = "ok" THEN "send" ELSE "advance"

\* setTimeout(resolve, 1000 * retries)
DelayMs(n) == BaseDelay * n

\* for (let i = 0; i < result.length; i++)
LoopHead(n) == IF n < Len(result) THEN "read" ELSE "done"

(***************************************************************************)
(* The steps of main.                                                      *)
(***************************************************************************)
Init ==
  /\ tree \in RunTrees
  /\ env = FullEnvironment
  /\ result = findSpecFilesAndRelated(tree, startDir, <<>>)
  /\ i = 0
  /\ pc = LoopHead(0)
  /\ retries = 0
  /\ claudeResponse = NoResponse
  /\ processedFiles = [success |-> <<>>, error |-> <<>>, skipped |-> <<>>]
  /\ fileContent = [p \in FilesOf(result) |-> OriginalContent]
  /\ reportFile = NoFile
  /\ lastWrite = NoWrite
  /\ readOutcome = "none"
  /\ attempts = <<>>
  /\ delays = <<>>
  /\ specWrites = <<>>

\* the reads of a record with outcome rd; a failed read lands in the outer catch
ReadStep(rd, rep) ==
  LET fresh == [ Cur EXCEPT !.retries = 0, !.claudeResponse = NoResponse,
                            !.attempts = <<>>, !.specWrites = <<>> ]
  IN IF rd = "ok" THEN fresh
     ELSE OuterCatch(fresh, specFile, ReadErrorMessage(rd, specFile), rep)

\* read the spec file and, when paired, the subject file
ReadFiles ==
  /\ pc = "read"
  /\ \E rd \in ReadOutcomes(specFile) \cap env.reads, rep \in env.reportWrites :
       LET st == ReadStep(rd, rep)
       IN /\ Commit(st)
          /\ readOutcome' = rd
          /\ pc' = IF st.escaped THEN "aborted" ELSE AfterRead(rd)
  /\ delays' = <<>>
  /\ UNCHANGED << tree, env, result, i >>

\* the body of the retry loop for service reply `reply`, up to its delay
AttemptStep(reply, w, rep1, rep2) ==
  LET text == sendToClaudeForReview(reply)
      called == [ Cur EXCEPT !.claudeResponse = text, !.attempts = Append(@, text) ]
      handled == HandleResponse(called, specFile, w, rep1)
  IN CountFailure(handled, specFile, rep2)

\* where main is after a pass of the retry loop
AfterAttempt(st) ==
  IF st.escaped THEN "aborted"
  ELSE IF ~HasResponse(st.claudeResponse) /\ RetryAllowed(st.retries) THEN "delay"
  ELSE IF LoopCondition(st.retries, st.claudeResponse) THEN "send"
  ELSE "afterLoop"

\* one pass of the retry loop, up to its delay or its end
ReviewAttempt ==
  /\ pc = "send"
  /\ \E reply \in env.replies, w \in env.specWrites,
        rep1 \in env.reportWrites, rep2 \in env.reportWrites :
       LET st == AttemptStep(reply, w, rep1, rep2)
       IN /\ Commit(st)
          /\ pc' = AfterAttempt(st)
  /\ UNCHANGED << tree, env, result, i, readOutcome, delays >>

\* the wait before the next attempt
RetryDelay ==
  /\ pc = "delay"
  /\ delays' = Append(delays, DelayMs(retries))
  /\ pc' = IF LoopCondition(retries, claudeResponse) THEN "send" ELSE "afterLoop"
  /\ UNCHANGED << tree, env, result, i, retries, claudeResponse, processedFiles, fileContent,
                  reportFile, lastWrite, readOutcome, attempts, specWrites >>

\* the check that follows the retry loop
AfterRetryLoop ==
  /\ pc = "afterLoop"
  /\ \E rep \in env.reportWrites :
       LET st == AfterLoopCheck(Cur, specFile, rep)
       IN /\ Commit(st)
          /\ pc' = IF st.escaped THEN "aborted" ELSE "advance"
  /\ UNCHANGED << tree, env, result, i, readOutcome, delays >>

\* progressBar.update(i + 1); i++
NextRecord ==
  /\ pc = "advance"
  /\ i' = i + 1
  /\ pc' = LoopHead(i + 1)
  /\ UNCHANGED << tree, env, result, retries, claudeResponse, processedFiles, fileContent,
                  reportFile, lastWrite, readOutcome, attempts, delays, specWrites >>

Next == ReadFiles \/ ReviewAttempt \/ RetryDelay \/ AfterRetryLoop \/ NextRecord

Spec == Init /\ [][Next]_vars

\* every await of main eventually returns
FairSpec == Spec /\ WF_vars(Next)

(***************************************************************************)
(* A run of main on a disk where a write can fail after the file was       *)
(* opened for writing.                                                     *)
(***************************************************************************)
DiskFaultInit ==
  /\ tree \in RunTrees
  /\ env = DiskFaultEnvironment
  /\ result = findSpecFilesAndRelated(tree, startDir, <<>>)
  /\ i = 0
  /\ pc = LoopHead(0)
  /\ retries = 0
  /\ claudeResponse = NoResponse
  /\ processedFiles = [success |-> <<>>, error |-> <<>>, skipped |-> <<>>]
  /\ fileContent = [p \in FilesOf(result) |-> OriginalContent]
  /\ reportFile = NoFile
  /\ lastWrite = NoWrite
  /\ readOutcome = "none"
  /\ attempts = <<>>
  /\ delays = <<>>
  /\ specWrites = <<>>

DiskFaultSpec == DiskFaultInit /\ [][Next]_vars

(***************************************************************************)
(* A run of main on a directory that holds one spec file more than the     *)
(* number of files the documentation says a run processes.                 *)
(***************************************************************************)
FileCap == 6

LongRunInit ==
  /\ tree = RunTree(FileCap + 1)
  /\ env = LongRunEnvironment
  /\ result = findSpecFilesAndRelated(tree, startDir, <<>>)
  /\ i = 0
  /\ pc = LoopHead(0)
  /\ retries = 0
  /\ claudeResponse = NoResponse
  /\ processedFiles = [success |-> <<>>, error |-> <<>>, skipped |-> <<>>]
  /\ fileContent = [p \in FilesOf(result) |-> OriginalContent]
  /\ reportFile = NoFile
  /\ lastWrite = NoWrite
  /\ readOutcome = "none"
  /\ attempts = <<>>
  /\ delays = <<>>
  /\ specWrites = <<>>

LongRunSpec == LongRunInit /\ [][Next]_vars

(***************************************************************************)
(* The legacy variant of main.  It keeps two lists (success, error), calls *)
(* no report write inside the loop and writes the report once, after the   *)
(* loop.  sanitizedRelatedContent is declared const and assigned again     *)
(* for a paired record, which throws a TypeError inside the try block of   *)
(* the record.                                                             *)
(***************************************************************************)
TypeErrorMessage == <<"Assignment to constant variable.">>

LegacyReport(pf) ==
  [ totalProcessed |-> Len(pf.success) + Len(pf.error),
    successfullyProcessed |-> Len(pf.success),
    errors |-> Len(pf.error),
    successfulFiles |-> pf.success,
    errorFiles |-> pf.error ]

\* the catch around the whole record: record the error's message
LegacyOuterCatch(st, rec, message) == PushError(st, rec.specFileName, message)

\* the reads of a record with outcome rd, and the assignment to the const
LegacyReadStep(rd) ==
  LET fresh == [ Cur EXCEPT !.retries = 0, !.claudeResponse = NoResponse,
                            !.attempts = <<>>, !.specWrites = <<>> ]
  IN IF rd # "ok" THEN LegacyOuterCatch(fresh, specFile, ReadErrorMessage(rd, specFile))
     ELSE IF specFile.relatedFilePath # NoPath
       THEN LegacyOuterCatch(fresh, specFile, TypeErrorMessage)
       ELSE fresh

\* the record goes on to the review call when nothing was thrown
LegacyAfterRead(st) == IF st.processedFiles = processedFiles THEN "send" ELSE "advance"

\* if (claudeResponse) { try { parse; write or log } catch (parseError) { ... } }
LegacyHandleResponse(st, rec, w) ==
  IF ~HasResponse(st.claudeResponse)
    THEN st
    ELSE LET parsed == JSONParse(st.claudeResponse) IN
         IF parsed.threw
           THEN ParseCatch(st)
           ELSE IF parsed.value.type # "object"
             THEN ParseCatch(st)             \* property read of null throws
             ELSE IF JSTruthy(parsed.value.newSpecContent)
               THEN LET written == WriteSpec(st, rec, parsed.value.newSpecContent.chars, w) IN
                    IF w = "ok" THEN PushSuccess(written, rec.specFilePath)
                    ELSE ParseCatch(written)
               ELSE st                       \* only a console message

\* if (!claudeResponse) { retries++; if (retries < maxRetries) wait else record the failure }
LegacyCountFailure(st, rec) ==
  IF HasResponse(st.claudeResponse)
    THEN st
    ELSE LET counted == [ st EXCEPT !.retries = @ + 1 ] IN
         IF RetryAllowed(counted.retries)
           THEN counted
           ELSE PushError(counted, rec.specFileName, ExhaustedMessage)

\* the check after the loop: if (!claudeResponse) { record the failure }
LegacyAfterLoopCheck(st, rec) ==
  IF HasResponse(st.claudeResponse) THEN st ELSE PushError(st, rec.specFileName, ExhaustedMessage)

\* the body of the retry loop for service reply `reply`, up to its delay
LegacyAttemptStep(reply, w) ==
  LET text == sendToClaudeForReview(reply)
      called == [ Cur EXCEPT !.claudeResponse = text, !.attempts = Append(@, text) ]
  IN LegacyCountFailure(LegacyHandleResponse(called, specFile, w), specFile)

\* for (let i = 0; i < result.length; i++), then the report
LegacyLoopHead(n) == IF n < Len(result) THEN "read" ELSE "report"

LegacyInit ==
  /\ tree \in RunTrees
  /\ env = FullEnvironment
  /\ result = findSpecFilesAndRelated(tree, startDir, <<>>)
  /\ i = 0
  /\ pc = LegacyLoopHead(0)
  /\ retries = 0
  /\ claudeResponse = NoResponse
  /\ processedFiles = [success |-> <<>>, error |-> <<>>]
  /\ fileContent = [p \in FilesOf(result) |-> OriginalContent]
  /\ reportFile = NoFile
  /\ lastWrite = NoWrite
  /\ readOutcome = "none"
  /\ attempts = <<>>
  /\ delays = <<>>
  /\ specWrites = <<>>

\* read the spec file and, when paired, the subject file
LegacyReadFiles ==
  /\ pc = "read"
  /\ \E rd \in ReadOutcomes(specFile) \cap env.reads :
       LET st == LegacyReadStep(rd)
       IN /\ Commit(st)
          /\ readOutcome' = rd
          /\ pc' = LegacyAfterRead(st)
  /\ delays' = <<>>
  /\ UNCHANGED << tree, env, result, i >>

\* one pass of the retry loop, up to its delay or its end
LegacyReviewAttempt ==
  /\ pc = "send"
  /\ \E reply \in env.replies, w \in env.specWrites :
       LET st == LegacyAttemptStep(reply, w)
       IN /\ Commit(st)
          /\ pc' = AfterAttempt(st)
  /\ UNCHANGED << tree, env, result, i, readOutcome, delays >>

\* the wait before the next attempt
LegacyRetryDelay ==
  /\ pc = "delay"
  /\ delays' = Append(delays, DelayMs(retries))
  /\ pc' = IF LoopCondition(retries, claudeResponse) THEN "send" ELSE "afterLoop"
  /\ UNCHANGED << tree, env, result, i, retries, claudeResponse, processedFiles, fileContent,
                  reportFile, lastWrite, readOutcome, attempts, specWrites >>

\* the check that follows the retry loop
LegacyAfterRetryLoop ==
  /\ pc = "afterLoop"
  /\ Commit(LegacyAfterLoopCheck(Cur, specFile))
  /\ pc' = "advance"
  /\ UNCHANGED << tree, env, result, i, readOutcome, delays >>

\* i++
LegacyNextRecord ==
  /\ pc = "advance"
  /\ i' = i + 1
  /\ pc' = LegacyLoopHead(i + 1)
  /\ UNCHANGED << tree, env, result, retries, claudeResponse, processedFiles, fileContent,
                  reportFile, lastWrite, readOutcome, attempts, delays, specWrites >>

\* the report, built and written once after the loop; a failed write is logged
LegacyWriteReport ==
  /\ pc = "report"
  /\ \E rep \in env.reportWrites :
       /\ reportFile' = IF rep = "ok" THEN LegacyReport(processedFiles) ELSE reportFile
       /\ lastWrite' = [path |-> reportPath, snapshot |-> LegacyReport(processedFiles),
                        ok |-> rep = "ok"]
  /\ pc' = "done"
  /\ UNCHANGED << tree, env, result, i, retries, claudeResponse, processedFiles, fileContent,
                  readOutcome, attempts, delays, specWrites >>

LegacyNext ==
  \/ LegacyReadFiles
  \/ LegacyReviewAttempt
  \/ LegacyRetryDelay
  \/ LegacyAfterRetryLoop
  \/ LegacyNextRecord
  \/ LegacyWriteReport

LegacySpec == LegacyInit /\ [][LegacyNext]_vars

(***************************************************************************)
(* Vocabulary of the properties.                                           *)
(***************************************************************************)
SeqCount(s, x) == Cardinality({ k \in 1..Len(s) : s[k] = x })

ErrorCount(name) ==
  Cardinality({ k \in 1..Len(processedFiles.error) : processedFiles.error[k].file = name })

HasErrorEntry(name, message) ==
  \E k \in 1..Len(processedFiles.error) :
    processedFiles.error[k] = [file |-> name, error |-> message]

SuccessCount(rec) == SeqCount(processedFiles.success, rec.specFilePath)

SkippedCount(rec) == SeqCount(processedFiles.skipped, rec.specFilePath)

\* the entries record rec has in the three lists together
Entries(rec) == SuccessCount(rec) + SkippedCount(rec) + ErrorCount(rec.specFileName)

\* a review call that failed: no response, or a text that does not parse
FailedCall(text) == ~HasResponse(text) \/ JSONParse(text).threw

\* a review call that returned JSON carrying a non-empty newSpecContent
UsableCall(text) ==
  /\ HasResponse(text)
  /\ ~JSONParse(text).threw
  /\ JSONParse(text).value.type = "object"
  /\ JSTruthy(JSONParse(text).value.newSpecContent)

\* a review call that returned JSON whose newSpecContent is absent or empty
EmptyCall(text) ==
  /\ HasResponse(text)
  /\ ~JSONParse(text).threw
  /\ ~UsableCall(text)

\* the record of the loop is being processed, its files were read
InRecord == pc \in { "send", "delay", "afterLoop", "advance" } /\ readOutcome = "ok"

\* the retry loop of the current record is over
LoopOver == pc \in { "afterLoop", "advance" } /\ readOutcome = "ok"

(***************************************************************************)
(* C1: a record whose files are readable and whose review call fails on    *)
(* every attempt (no response or unparseable text) gets exactly 3 review   *)
(* calls; no error entry is recorded for it before the third, and after    *)
(* it the record is Failed with the reason "Failed to receive response     *)
(* after 3 attempts".                                                      *)
(***************************************************************************)
C1_RetryBound ==
  (InRecord /\ \A k \in 1..Len(attempts) : FailedCall(attempts[k])) =>
    /\ Len(attempts) <= 3
    /\ (Len(attempts) < 3 => pc \in { "send", "delay" } /\ Entries(specFile) = 0)
    /\ (LoopOver => Len(attempts) = 3)
    /\ (pc = "advance" =>
          /\ HasErrorEntry(specFile.specFileName, ExhaustedMessage)
          /\ SuccessCount(specFile) = 0
          /\ SkippedCount(specFile) = 0)

C1_Witness ==
  /\ pc = "advance"
  /\ readOutcome = "ok"
  /\ Len(attempts) = 3
  /\ attempts[1] = NoResponse
  /\ attempts[2] = Prose
  /\ attempts[3] = NoResponse
  /\ HasErrorEntry(specFile.specFileName, ExhaustedMessage)

(***************************************************************************)
(* C2: every record adds exactly one entry to exactly one of the three     *)
(* lists, so after k records totalProcessed is k and at the end of the     *)
(* run it is the number of discovered records.                             *)
(***************************************************************************)
C2_OneEntryPerRecord ==
  /\ (pc = "advance" =>
        /\ Entries(specFile) = 1
        /\ Report(processedFiles).totalProcessed = i + 1)
  /\ (pc = "done" => Report(processedFiles).totalProcessed = Len(result))

(***************************************************************************)
(* C3 as stated: a response that parses as JSON and whose newSpecContent   *)
(* is absent or empty ends the retry loop on that attempt with outcome     *)
(* Skipped; a record whose calls all failed is Failed; a record is never   *)
(* both Skipped and Failed.                                                *)
(***************************************************************************)
C3_SkippedOrFailed ==
  /\ InRecord =>
       \A k \in 1..Len(attempts) :
         EmptyCall(attempts[k]) =>
           /\ k = Len(attempts)
           /\ LoopOver
           /\ SkippedCount(specFile) = 1
           /\ ErrorCount(specFile.specFileName) = 0
  /\ (pc = "advance" /\ readOutcome = "ok"
        /\ \A k \in 1..Len(attempts) : FailedCall(attempts[k])) =>
       /\ ErrorCount(specFile.specFileName) >= 1
       /\ SkippedCount(specFile) = 0
  /\ \A k \in 1..Len(result) :
       ~(SkippedCount(result[k]) >= 1 /\ ErrorCount(result[k].specFileName) >= 1)

(***************************************************************************)
(* C3 as amended: the response that ends the loop with outcome Skipped is  *)
(* one that parses to a JSON object (not to null) whose newSpecContent is  *)
(* absent or empty; the JSON text null is handled as a malformed response  *)
(* and retried.  A record that gets no parseable object within its 3       *)
(* attempts is Failed; a record is never both Skipped and Failed.          *)
(***************************************************************************)
DeclinedCall(text) == EmptyCall(text) /\ JSONParse(text).value.type = "object"

MalformedCall(text) == FailedCall(text) \/ (EmptyCall(text) /\ ~DeclinedCall(text))

C3_SkippedOrFailedAmended ==
  /\ InRecord =>
       \A k \in 1..Len(attempts) :
         /\ DeclinedCall(attempts[k]) =>
              /\ k = Len(attempts)
              /\ LoopOver
              /\ SkippedCount(specFile) = 1
              /\ ErrorCount(specFile.specFileName) = 0
         /\ (MalformedCall(attempts[k]) /\ k = Len(attempts) /\ k < 3) => pc \in { "send", "delay" }
  /\ (pc = "advance" /\ readOutcome = "ok"
        /\ \A k \in 1..Len(attempts) : MalformedCall(attempts[k])) =>
       /\ Len(attempts) = 3
       /\ ErrorCount(specFile.specFileName) >= 1
       /\ SkippedCount(specFile) = 0
  /\ \A k \in 1..Len(result) :
       ~(SkippedCount(result[k]) >= 1 /\ ErrorCount(result[k].specFileName) >= 1)

C3_Witness ==
  /\ pc = "advance"
  /\ readOutcome = "ok"
  /\ Len(attempts) = 2
  /\ attempts[1] = JsonText(JNull)
  /\ attempts[2] = JsonText(JObject(Undefined))
  /\ SkippedCount(specFile) = 1
  /\ i = 1
  /\ ErrorCount(result[1].specFileName) = 2

(***************************************************************************)
(* C4 as stated: if the review call of a record fails on its first k       *)
(* attempts, k in {1, 2}, and returns JSON with a non-empty newSpecContent *)
(* on attempt k+1, the outcome is Success, k+1 review calls are made, k    *)
(* delays are waited and no error entry is recorded for the record.        *)
(***************************************************************************)
FailedThenUsable(k) ==
  /\ Len(attempts) >= k + 1
  /\ \A j \in 1..k : FailedCall(attempts[j])
  /\ UsableCall(attempts[k + 1])

C5_InOrder ==
  /\ pc # "aborted"
  /\ i <= Len(result)
  /\ \A k \in 1..Len(result) :
       /\ k <= i => Entries(result[k]) >= 1
       /\ (k = i + 1 /\ pc = "advance") => Entries(result[k]) >= 1
       /\ (k > i + 1 \/ (k = i + 1 /\ pc = "read")) =>
            /\ Entries(result[k]) = 0
            /\ fileContent[result[k].specFilePath] = OriginalContent
  /\ pc = "done" => i = Len(result)

C5_BatchCompletes == [](C5_InOrder) /\ <>(pc = "done")

C5_Witness ==
  /\ pc = "done"
  /\ Len(result) >= 2
  /\ processedFiles.error # <<>>
  /\ processedFiles.error[1] =
       [file |-> result[1].specFileName, error |-> ReadErrorMessage("specUnreadable", result[1])]
  /\ readOutcome = "ok"
  /\ \E k \in 1..Len(specWrites) : specWrites[k] = "fails"
  /\ \E k \in 1..Len(attempts) : FailedCall(attempts[k])
  /\ ~lastWrite.ok

(***************************************************************************)
(* C6: the report is written after every record's outcome and before the   *)
(* next record is read: when the read of the next record begins, and at    *)
(* the end of the run, the latest report write carried the in-memory       *)
(* report, which covers every completed record, and if that write          *)
(* succeeded the report file holds exactly that report.                    *)
(***************************************************************************)
C6_ReportBeforeNextRecord ==
  (pc \in { "advance", "read", "done" } /\ (pc = "advance" \/ i >= 1)) =>
    /\ lastWrite.snapshot = Report(processedFiles)
    /\ lastWrite.ok => reportFile = Report(processedFiles)
    /\ Report(processedFiles).totalProcessed >= (IF pc = "advance" THEN i + 1 ELSE i)

C6_Witness ==
  /\ pc = "read"
  /\ i >= 1
  /\ lastWrite.ok
  /\ reportFile = Report(processedFiles)
  /\ reportFile.skipped = 1

(***************************************************************************)
(* C7: in every report snapshot written, totalProcessed is the sum of      *)
(* successfullyProcessed, skipped and errors, each count is the length of  *)
(* its list, and no count is negative.                                     *)
(***************************************************************************)
ConsistentSnapshot(r) ==
  /\ r.totalProcessed = r.successfullyProcessed + r.skipped + r.errors
  /\ r.successfullyProcessed = Len(r.successfulFiles)
  /\ r.skipped = Len(r.skippedFiles)
  /\ r.errors = Len(r.errorFiles)
  /\ r.totalProcessed >= 0
  /\ r.successfullyProcessed >= 0
  /\ r.skipped >= 0
  /\ r.errors >= 0

C7_CountsAddUp ==
  /\ reportFile # NoFile => ConsistentSnapshot(reportFile)
  /\ lastWrite.snapshot # NoFile => ConsistentSnapshot(lastWrite.snapshot)

C7_Witness ==
  /\ reportFile # NoFile
  /\ lastWrite.ok
  /\ reportFile.successfullyProcessed = 1
  /\ reportFile.skipped = 1
  /\ reportFile.totalProcessed = 2

(***************************************************************************)
(* C8: a record whose spec file or subject file cannot be read is Failed   *)
(* at once with the message of the read error: no review call, no delay    *)
(* and no write of its spec file.                                          *)
(***************************************************************************)
C8_ReadFailureIsFinal ==
  (pc \in { "send", "delay", "afterLoop", "advance" } /\ readOutcome # "ok") =>
    /\ pc = "advance"
    /\ attempts = <<>>
    /\ delays = <<>>
    /\ specWrites = <<>>
    /\ fileContent[specFile.specFilePath] = OriginalContent
    /\ processedFiles.error[Len(processedFiles.error)] =
         [file |-> specFile.specFileName, error |-> ReadErrorMessage(readOutcome, specFile)]
    /\ Entries(specFile) = 1

C8_Witness ==
  /\ pc = "advance"
  /\ readOutcome = "relatedUnreadable"
  /\ attempts = <<>>
  /\ HasErrorEntry(specFile.specFileName, <<"ENOENT">> \o specFile.relatedFilePath)

(***************************************************************************)
(* C9: a failed write of the rewritten spec file is fatal for the record   *)
(* and is not retried: the failed write is the last thing tried for the    *)
(* record, no review call follows it, and the record is Failed.            *)
(***************************************************************************)
C9_WriteFailureIsFatal ==
  InRecord =>
    \A k \in 1..Len(specWrites) :
      specWrites[k] = "fails" =>
        /\ k = Len(specWrites)
        /\ UsableCall(attempts[Len(attempts)])
        /\ pc \in { "afterLoop", "advance" }
        /\ pc = "advance" => ErrorCount(specFile.specFileName) >= 1

(***************************************************************************)
(* C10 as stated: in a run with one spec file, paired with a subject file  *)
(* of its directory, whose first review call returns JSON with             *)
(* newSpecContent "X\n": one review call is made, the spec file's content  *)
(* becomes "X\n", and the report shows 1 success, 0 skipped, 0 errors.     *)
(***************************************************************************)
ScenarioB ==
  /\ Len(result) = 1
  /\ result[1].relatedFilePath = RelatedPath(1)
  /\ readOutcome = "ok"
  /\ attempts # <<>>
  /\ attempts[1] = JsonText(JObject(JString(<< "X", NL >>)))

ScenarioBOutcome ==
  /\ Len(attempts) = 1
  /\ fileContent[result[1].specFilePath] = << "X", NL >>
  /\ Report(processedFiles).totalProcessed = 1
  /\ Report(processedFiles).successfullyProcessed = 1
  /\ Report(processedFiles).skipped = 0
  /\ Report(processedFiles).errors = 0
  /\ Report(processedFiles).successfulFiles = << result[1].specFilePath >>
  /\ lastWrite.snapshot = Report(processedFiles)

RECURSIVE TrailingNL(_)

\* the number of line terminators the text ends with
TrailingNL(s) == IF endsWith(s, NL) THEN 1 + TrailingNL(SubSeq(s, 1, Len(s) - 1)) ELSE 0

\* the content field of a usable review response
ReturnedContent(text) == JSONParse(text).value.newSpecContent.chars

\* the current record was given the outcome Success by its last review call
Accepted == LoopOver /\ SuccessCount(specFile) >= 1

(***************************************************************************)
(* C11: for every non-empty newSpecContent accepted by main, the text      *)
(* written to the spec file ends with exactly one trailing line            *)
(* terminator, never zero and never two or more, also when the returned    *)
(* content already ends with several.                                      *)
(***************************************************************************)
C11_ExactlyOneTerminator ==
  Accepted => TrailingNL(fileContent[specFile.specFilePath]) = 1

(***************************************************************************)
(* C11 as the code has it: the text written to the spec file of an         *)
(* accepted record ends with at least one line terminator; one is added    *)
(* when the returned content ends with none, and a content that ends with  *)
(* one or more is written as it was returned.                              *)
(***************************************************************************)
C11_TerminatorEnsured ==
  Accepted =>
    LET c == ReturnedContent(attempts[Len(attempts)])
        written == fileContent[specFile.specFilePath]
    IN /\ UsableCall(attempts[Len(attempts)])
       /\ TrailingNL(written) >= 1
       /\ (TrailingNL(c) = 0 => written = Append(c, NL) /\ TrailingNL(written) = 1)
       /\ (TrailingNL(c) >= 1 => written = c)

C11_Witness ==
  /\ Accepted
  /\ ReturnedContent(attempts[Len(attempts)]) = <<"X", NL, NL>>
  /\ TrailingNL(fileContent[specFile.specFilePath]) = 2

(***************************************************************************)
(* The start of main: the directory is checked and searched.               *)
(***************************************************************************)
DiscoveryInit ==
  /\ tree \in Trees
  /\ env = FullEnvironment
  /\ result = <<>>
  /\ i = 0
  /\ pc = "start"
  /\ retries = 0
  /\ claudeResponse = NoResponse
  /\ processedFiles = [success |-> <<>>, error |-> <<>>, skipped |-> <<>>]
  /\ fileContent = [p \in {} |-> OriginalContent]
  /\ reportFile = NoFile
  /\ lastWrite = NoWrite
  /\ readOutcome = "none"
  /\ attempts = <<>>
  /\ delays = <<>>
  /\ specWrites = <<>>

\* if (!fs.existsSync(startDir)) { ...; return; }
RejectMissingDirectory ==
  /\ pc = "start"
  /\ ~existsSync(tree, startDir)
  /\ pc' = "rejected"
  /\ UNCHANGED << tree, env, result, i, retries, claudeResponse, processedFiles, fileContent,
                  reportFile, lastWrite, readOutcome, attempts, delays, specWrites >>

\* const result = findSpecFilesAndRelated(startDir)
Discover ==
  /\ pc = "start"
  /\ existsSync(tree, startDir)
  /\ result' = findSpecFilesAndRelated(tree, startDir, <<>>)
  /\ fileContent' = [p \in FilesOf(result') |-> OriginalContent]
  /\ pc' = "discovered"
  /\ UNCHANGED << tree, env, i, retries, claudeResponse, processedFiles,
                  reportFile, lastWrite, readOutcome, attempts, delays, specWrites >>

DiscoveryNext == RejectMissingDirectory \/ Discover

DiscoverySpec == DiscoveryInit /\ [][DiscoveryNext]_vars

(***************************************************************************)
(* Vocabulary of the properties of the search.                             *)
(***************************************************************************)
Discovered == pc = "discovered"

\* an entry named as path p says is listed in the directory that holds it
EntryAt(fs, p) ==
  /\ p # NoPath
  /\ dirname(p) \in DOMAIN fs
  /\ \E k \in 1..Len(fs[dirname(p)]) : fs[dirname(p)][k].name = p[Len(p)]

\* path p lies in directory d or below it
Under(d, p) == Len(p) > Len(d) /\ SubSeq(p, 1, Len(d)) = d

RecognisedSuffixes == { <<"spec", "js">>, <<"spec", "ts">>, <<"spec", "vue">> }

\* the name ends in .spec.js, .spec.ts or .spec.vue
HasSpecSuffix(name) ==
  Len(name) >= 3 /\ SubSeq(name, Len(name) - 1, Len(name)) \in RecognisedSuffixes

\* the regular files of the tree under d whose name has a recognised suffix
SpecFilesUnder(fs, d) ==
  { join(dir, fs[dir][k].name) : <<dir, k>> \in
      { dk \in UNION { { <<dd, kk>> : kk \in 1..Len(fs[dd]) } : dd \in DOMAIN fs } :
          /\ dk[1] = d \/ Under(d, dk[1])
          /\ ~fs[dk[1]][dk[2]].isDirectory
          /\ HasSpecSuffix(fs[dk[1]][dk[2]].name) } }

\* the spec name without its .spec marker
Candidate(rec) ==
  SubSeq(rec.specFileName, 1, Len(rec.specFileName) - 2)
    \o << rec.specFileName[Len(rec.specFileName)] >>

(***************************************************************************)
(* C12: in every record produced by findSpecFilesAndRelated,               *)
(* relatedFileName is present if and only if relatedFilePath is present,   *)
(* and a present relatedFilePath names an entry that exists in the file    *)
(* system at discovery time.                                               *)
(***************************************************************************)
C12_NoDanglingPairing ==
  Discovered =>
    \A k \in 1..Len(result) :
      /\ (result[k].relatedFileName # NoPath) <=> (result[k].relatedFilePath # NoPath)
      /\ result[k].relatedFilePath # NoPath => EntryAt(tree, result[k].relatedFilePath)

C12_Witness ==
  /\ Discovered
  /\ \E k \in 1..Len(result) :
       result[k].relatedFilePath # NoPath /\ EntryAt(tree, result[k].relatedFilePath)
  /\ \E k \in 1..Len(result) :
       result[k].relatedFilePath = NoPath /\ result[k].relatedFileName = NoPath

(***************************************************************************)
(* C13: for a spec file found in directory d with subject candidate n, the *)
(* relatedFilePath is d/n when d/n exists, also when parent(d)/n exists;   *)
(* otherwise it is parent(d)/n when that exists; otherwise the record is   *)
(* unpaired.                                                               *)
(***************************************************************************)
C13_SameDirectoryFirst ==
  Discovered =>
    \A k \in 1..Len(result) :
      LET d == dirname(result[k].specFilePath)
          n == Candidate(result[k])
      IN /\ EntryAt(tree, join(d, n)) => result[k].relatedFilePath = join(d, n)
         /\ (~EntryAt(tree, join(d, n)) /\ EntryAt(tree, join(dirname(d), n))) =>
              result[k].relatedFilePath = join(dirname(d), n)
         /\ (~EntryAt(tree, join(d, n)) /\ ~EntryAt(tree, join(dirname(d), n))) =>
              /\ result[k].relatedFilePath = NoPath
              /\ result[k].relatedFileName = NoPath

C13_Witness ==
  /\ Discovered
  /\ \E k \in 1..Len(result) :
       LET d == dirname(result[k].specFilePath)
           n == Candidate(result[k])
       IN /\ EntryAt(tree, join(d, n))
          /\ EntryAt(tree, join(dirname(d), n))
          /\ result[k].relatedFilePath = join(d, n)
  /\ \E k \in 1..Len(result) :
       LET d == dirname(result[k].specFilePath)
           n == Candidate(result[k])
       IN /\ ~EntryAt(tree, join(d, n))
          /\ result[k].relatedFilePath = join(dirname(d), n)

(***************************************************************************)
(* C14: findSpecFilesAndRelated returns exactly one record for every       *)
(* regular file of the tree under the root whose name ends in .spec.js,    *)
(* .spec.ts or .spec.vue and no record for any other file; the             *)
(* specFilePath values are pairwise distinct, and a tree without such a    *)
(* file gives the empty sequence.                                          *)
(***************************************************************************)
C14_OneRecordPerSpecFile ==
  Discovered =>
    /\ { result[k].specFilePath : k \in 1..Len(result) } = SpecFilesUnder(tree, startDir)
    /\ Len(result) = Cardinality(SpecFilesUnder(tree, startDir))
    /\ \A k \in 1..Len(result) :
         result[k].specFileName = result[k].specFilePath[Len(result[k].specFilePath)]
    /\ (SpecFilesUnder(tree, startDir) = {} => result = <<>>)

C14_Witness ==
  /\ Discovered
  /\ Len(result) = 3
  /\ specNamedDir \in DOMAIN tree
  /\ candidateDir \in DOMAIN tree
  /\ \E k \in 1..Len(result) : dirname(result[k].specFilePath) = subDir

(***************************************************************************)
(* C15: when the search returns an empty sequence the run makes no review  *)
(* call, and at its end the report file exists and shows all-zero counts.  *)
(***************************************************************************)
C15_EmptyRunReport ==
  (pc = "done" /\ result = <<>>) =>
    /\ attempts = <<>>
    /\ reportFile # NoFile
    /\ reportFile = Report([success |-> <<>>, error |-> <<>>, skipped |-> <<>>])

(***************************************************************************)
(* C16: a failure of a report write is swallowed: it changes none of the   *)
(* in-memory lists and not the outcome of the current record, and          *)
(* processing continues exactly as if the write had succeeded.             *)
(***************************************************************************)
\* what a step leaves in memory and in the spec files
InMemory(st) ==
  [ retries |-> st.retries,
    claudeResponse |-> st.claudeResponse,
    processedFiles |-> st.processedFiles,
    fileContent |-> st.fileContent,
    attempts |-> st.attempts,
    specWrites |-> st.specWrites,
    escaped |-> st.escaped ]

C16_ReportFailureSwallowed ==
  /\ pc # "aborted"
  /\ pc = "read" =>
       \A rd \in ReadOutcomes(specFile), rep \in WriteOutcomes :
         /\ InMemory(ReadStep(rd, rep)) = InMemory(ReadStep(rd, "ok"))
         /\ ~ReadStep(rd, rep).escaped
  /\ pc = "send" =>
       \A reply \in ServiceReplies, w \in WriteOutcomes, rep1 \in WriteOutcomes, rep2 \in WriteOutcomes :
         /\ InMemory(AttemptStep(reply, w, rep1, rep2)) = InMemory(AttemptStep(reply, w, "ok", "ok"))
         /\ AfterAttempt(AttemptStep(reply, w, rep1, rep2)) = AfterAttempt(AttemptStep(reply, w, "ok", "ok"))
         /\ ~AttemptStep(reply, w, rep1, rep2).escaped
  /\ pc = "afterLoop" =>
       \A rep \in WriteOutcomes :
         /\ InMemory(AfterLoopCheck(Cur, specFile, rep)) = InMemory(AfterLoopCheck(Cur, specFile, "ok"))
         /\ ~AfterLoopCheck(Cur, specFile, rep).escaped
  /\ (lastWrite.snapshot # NoFile /\ ~lastWrite.ok /\ pc \in { "read", "advance", "done" }) =>
       lastWrite.snapshot = Report(processedFiles)

\* the report write of the first record failed and the run is at its second record
C16_Witness ==
  /\ i = 1
  /\ pc = "send"
  /\ reportFile = NoFile
  /\ ~lastWrite.ok
  /\ Len(processedFiles.success) = 1
  /\ lastWrite.snapshot = Report(processedFiles)

(***************************************************************************)
(* C17: a spec file is overwritten only by the step that gives its record  *)
(* the outcome Success; the spec file of a Skipped or Failed record keeps  *)
(* its original content, and no file other than the spec files of Success  *)
(* records and the report file is written during a run.                    *)
(***************************************************************************)
C17_OnlySuccessRewritten ==
  \A p \in DOMAIN fileContent :
    fileContent[p] # OriginalContent =>
      \E k \in 1..Len(result) :
        /\ p = result[k].specFilePath
        /\ SuccessCount(result[k]) = 1
        /\ SkippedCount(result[k]) = 0
        /\ ErrorCount(result[k].specFileName) = 0

(***************************************************************************)
(* C18: a run processes at most the first 6 discovered spec files: no      *)
(* record after the sixth in discovery order is read, submitted to the     *)
(* review service or rewritten.                                            *)
(***************************************************************************)
C18_FirstSixOnly ==
  /\ i >= FileCap => pc = "done"
  /\ \A k \in (FileCap + 1)..Len(result) :
       /\ fileContent[result[k].specFilePath] = OriginalContent
       /\ Entries(result[k]) = 0

(***************************************************************************)
(* C19: report writing is idempotent and a full overwrite: every write of  *)
(* a run targets the same report path, the persisted content is a function *)
(* of the current RunReport value only, and writing the same value twice   *)
(* leaves the content that writing it once leaves.                         *)
(***************************************************************************)
C19_ReportOverwrite ==
  LET once == updateReport(Cur, "ok")
      twice == updateReport(once, "ok")
      onEmpty == updateReport([ Cur EXCEPT !.reportFile = NoFile ], "ok")
  IN /\ lastWrite # NoWrite => lastWrite.path = reportPath
     /\ once.lastWrite.path = reportPath
     /\ lastWrite.ok => reportFile = lastWrite.snapshot
     /\ once.reportFile = Report(processedFiles)
     /\ onEmpty.reportFile = once.reportFile
     /\ twice.reportFile = once.reportFile
     /\ InMemory(twice) = InMemory(Cur)

\* a second successful write has replaced the content the first one left
C19_Witness ==
  /\ pc = "done"
  /\ lastWrite.ok
  /\ lastWrite.path = reportPath
  /\ reportFile = Report(processedFiles)
  /\ reportFile.totalProcessed = 2
  /\ reportFile.successfullyProcessed = 2

(***************************************************************************)
(* C20: the delay waited after the n-th failed attempt of a record is n    *)
(* times 1000 ms (1000 after attempt 1, 2000 after attempt 2), so the      *)
(* delays are strictly increasing; no delay is waited after the third      *)
(* failed attempt or after an attempt that produced a usable or Skipped    *)
(* response.                                                               *)
(***************************************************************************)
C20_LinearBackoff ==
  InRecord =>
    /\ Len(delays) <= 2
    /\ \A n \in 1..Len(delays) :
         /\ delays[n] = n * 1000
         /\ n <= Len(attempts)
         /\ ~UsableCall(attempts[n])
         /\ ~DeclinedCall(attempts[n])
    /\ \A n \in 1..(Len(delays) - 1) : delays[n] < delays[n + 1]
    /\ pc = "send" => Len(delays) = Len(attempts)
    /\ pc = "delay" => Len(delays) = Len(attempts) - 1
    /\ LoopOver => Len(delays) = Len(attempts) - 1

(***************************************************************************)
(* Vocabulary of the properties of the legacy variant.                     *)
(***************************************************************************)
\* the entries record rec has in the lists of the final report
ReportEntries(rec) ==
  SeqCount(reportFile.successfulFiles, rec.specFilePath)
    + Cardinality({ k \in 1..Len(reportFile.errorFiles) :
                      reportFile.errorFiles[k].file = rec.specFileName })

(***************************************************************************)
(* C21: in the legacy variant a paired record whose spec file and subject  *)
(* file are both readable is submitted to the review service, and its      *)
(* outcome is decided by the response: Success, with the spec file         *)
(* rewritten, when the first response carries non-empty newSpecContent.    *)
(***************************************************************************)
C21_PairedRecordSubmitted ==
  (pc = "advance" /\ specFile.relatedFilePath # NoPath /\ readOutcome = "ok") =>
    /\ Len(attempts) >= 1
    /\ ErrorCount(specFile.specFileName) = 0 \/ HasErrorEntry(specFile.specFileName, ExhaustedMessage)
    /\ (UsableCall(attempts[1]) /\ specWrites = << "ok" >>) =>
         /\ SuccessCount(specFile) = 1
         /\ fileContent[specFile.specFilePath] = ReturnedContent(attempts[1])

(***************************************************************************)
(* C22: in the legacy variant every record's terminal outcome appears in   *)
(* the final report exactly once, also for a record whose response carried *)
(* no new content, so the report's totalProcessed is the number of         *)
(* discovered records.                                                     *)
(***************************************************************************)
C22_EveryOutcomeReported ==
  (pc = "done" /\ lastWrite.ok) =>
    /\ reportFile.totalProcessed = Len(result)
    /\ \A k \in 1..Len(result) : ReportEntries(result[k]) = 1

(***************************************************************************)
(* C23: every relatedFilePath produced by findSpecFilesAndRelated lies     *)
(* inside the tree of the directory the user entered, also for spec files  *)
(* located directly in that directory.                                     *)
(***************************************************************************)
C23_RelatedInsideRoot ==
  Discovered =>
    \A k \in 1..Len(result) :
      result[k].relatedFilePath # NoPath => Under(startDir, result[k].relatedFilePath)

====
